---- MODULE Spec2Model ----
(***************************************************************************)
(* Patient record service: request validation (validate_post_input,        *)
(* validate_blood_type), patient construction, test-result accumulation    *)
(* and lookup, as implemented in health_db_for_giu.py and patient_class.py *)
(*                                                                         *)
(* Python strings are modelled as sequences of one-character strings so    *)
(* that str.split and list membership are computed, not assumed.           *)
(* JSON values carry their Python type tag: [t, s, n] where t is the       *)
(* name of type(value), s the payload of a str and n the payload of a      *)
(* number.                                                                 *)
(***************************************************************************)
EXTENDS Integers, Sequences, FiniteSets, TLC

VARIABLES
    store,      \* the document collection: a set of patient documents
    store0,     \* history: the collection as it was when the server started
    log,        \* history: per mrn, the (name, value) pairs of the appends that returned True
    pc,         \* per request handler: "ready" or "save" (between get_patient and save)
    req,        \* per request handler: the request being (or last) handled
    patient,    \* per request handler: the local Patient instance read by get_patient
    resp,       \* per request handler: the response of the last handled request
    nreq,       \* number of requests received so far
    vcall,      \* validator harness: the call made
    vret        \* validator harness: the value returned

vars == <<store, store0, log, pc, req, patient, resp, nreq, vcall, vret>>

-----------------------------------------------------------------------------
(* Bounds *)

\* requests the server receives in one run
MaxReqs == 3
\* longest blood-type string given to validate_blood_type
MaxBloodLen == 3

\* longest <patient_id> string given to validate_patient_id
MaxIdLen == 3

-----------------------------------------------------------------------------
(* JSON values *)

JStr(s) == [t |-> "str", s |-> s, n |-> 0]
JInt(n) == [t |-> "int", s |-> <<>>, n |-> n]
JFloat(n) == [t |-> "float", s |-> <<>>, n |-> n]
JBool(n) == [t |-> "bool", s |-> <<>>, n |-> n]
JNull == [t |-> "NoneType", s |-> <<>>, n |-> 0]

\* Python's None and False
PyNone == [py |-> "None"]
PyFalse == [py |-> "False"]

\* the empty dictionary
EmptyDict == [k \in {} |-> JNull]

-----------------------------------------------------------------------------
(* Validator *)

\* what validate_post_input and validate_blood_type return: True, or an
\* error message, kept here as the message's kind and the values formatted
\* into it
RetTrue == [kind |-> "True", key |-> "", type |-> "", value |-> <<>>]
KeyNotFound(k) == [kind |-> "KeyNotFound", key |-> k, type |-> "", value |-> <<>>]
NotExpectedType(k, ty) == [kind |-> "NotExpectedType", key |-> k, type |-> ty, value |-> <<>>]
BloodTypeNotValid(b) == [kind |-> "BloodTypeNotValid", key |-> "", type |-> "", value |-> b]

Min(a, b) == IF a < b THEN a ELSE b

\* mutant: the type test done with isinstance, which a bool passes for int
TypeIsNot_isinstance(v, ex_type) ==
    ~(v.t = ex_type \/ (ex_type = "int" /\ v.t = "bool"))

\* type(in_data[ex_key]) is not ex_type
TypeIsNot(v, ex_type) == v.t # ex_type

\* the loop of validate_post_input from the i-th pair of the zip on
RECURSIVE validate_from(_, _, _, _)
validate_from(in_data, expected_keys, expected_types, i) ==
    IF i > Min(Len(expected_keys), Len(expected_types))
    THEN RetTrue
    ELSE IF expected_keys[i] \notin DOMAIN in_data
    THEN KeyNotFound(expected_keys[i])
    ELSE IF TypeIsNot(in_data[expected_keys[i]], expected_types[i])
    THEN NotExpectedType(expected_keys[i], expected_types[i])
    ELSE validate_from(in_data, expected_keys, expected_types, i + 1)

\* mutant: the pairs are visited from the last one to the first
RECURSIVE validate_back_from(_, _, _, _)
validate_back_from(in_data, expected_keys, expected_types, i) ==
    IF i < 1
    THEN RetTrue
    ELSE IF expected_keys[i] \notin DOMAIN in_data
    THEN KeyNotFound(expected_keys[i])
    ELSE IF TypeIsNot(in_data[expected_keys[i]], expected_types[i])
    THEN NotExpectedType(expected_keys[i], expected_types[i])
    ELSE validate_back_from(in_data, expected_keys, expected_types, i - 1)

validate_post_input_reversed(in_data, expected_keys, expected_types) ==
    validate_back_from(in_data, expected_keys, expected_types,
                       Min(Len(expected_keys), Len(expected_types)))

\* mutant: every key is looked for before any type is tested
validate_post_input_keys_first(in_data, expected_keys, expected_types) ==
    LET n == Min(Len(expected_keys), Len(expected_types))
        missing == {i \in 1..n : expected_keys[i] \notin DOMAIN in_data}
        first == CHOOSE i \in missing : \A j \in missing : i <= j
    IN IF missing # {}
       THEN KeyNotFound(expected_keys[first])
       ELSE validate_from(in_data, expected_keys, expected_types, 1)

validate_post_input(in_data, expected_keys, expected_types) ==
    validate_from(in_data, expected_keys, expected_types, 1)

valid_blood_types ==
    << <<"A", "+">>, <<"A", "-">>, <<"B", "+">>, <<"B", "-">>,
       <<"A", "B", "+">>, <<"A", "B", "-">>, <<"O", "+">>, <<"O", "-">> >>

\* x in lst, for a Python list
InList(x, lst) == \E i \in 1..Len(lst) : lst[i] = x

\* mutant: the blood type is compared in upper case
upper(s) ==
    [i \in 1..Len(s) |-> IF s[i] = "a" THEN "A" ELSE IF s[i] = "b" THEN "B" ELSE s[i]]

validate_blood_type_upper(blood_type) ==
    IF InList(upper(blood_type), valid_blood_types)
    THEN RetTrue
    ELSE BloodTypeNotValid(blood_type)

validate_blood_type(blood_type) ==
    IF InList(blood_type, valid_blood_types)
    THEN RetTrue
    ELSE BloodTypeNotValid(blood_type)

\* the expected keys and types of the two POST routes
new_patient_keys == <<"name", "id", "blood_type">>
new_patient_types == <<"str", "int", "str">>
add_test_keys == <<"id", "test_name", "test_result">>
add_test_types == <<"int", "str", "int">>

\* int(s) for a str s: surrounding blanks are dropped, one sign may lead,
\* and the rest is decimal digits, single underscores allowed between them
Digits == <<"0", "1", "2", "3", "4", "5", "6", "7", "8", "9">>
IsDigit(c) == InList(c, Digits)
DigitValue(c) == (CHOOSE i \in 1..Len(Digits) : Digits[i] = c) - 1

RECURSIVE strip(_)
strip(s) ==
    IF s # <<>> /\ s[1] = " " THEN strip(Tail(s))
    ELSE IF s # <<>> /\ s[Len(s)] = " " THEN strip(SubSeq(s, 1, Len(s) - 1))
    ELSE s

RECURSIVE digits_value(_, _)
digits_value(s, acc) ==
    IF s = <<>> THEN acc
    ELSE IF s[1] = "_" THEN digits_value(Tail(s), acc)
    ELSE digits_value(Tail(s), 10 * acc + DigitValue(s[1]))

int_literal(body) ==
    /\ body # <<>>
    /\ IsDigit(body[1])
    /\ IsDigit(body[Len(body)])
    /\ \A i \in 1..Len(body) : IsDigit(body[i]) \/ body[i] = "_"
    /\ \A i \in 1..(Len(body) - 1) : ~(body[i] = "_" /\ body[i + 1] = "_")

\* int(s): whether it raises ValueError, and its value when it does not
int_of_str(s) ==
    LET t == strip(s)
        signed == t # <<>> /\ t[1] \in {"+", "-"}
        body == IF signed THEN Tail(t) ELSE t
    IN IF ~int_literal(body)
       THEN [exc |-> "ValueError", n |-> 0]
       ELSE [exc |-> "",
             n |-> IF signed /\ t[1] = "-"
                   THEN 0 - digits_value(body, 0)
                   ELSE digits_value(body, 0)]

\* a Python int as a value that "is not False"
PyInt(n) == [py |-> "int", n |-> n]

\* mutant: the string is tested with str.isdigit before it is converted
validate_patient_id_isdigit(patient_id) ==
    IF patient_id # <<>> /\ \A i \in 1..Len(patient_id) : IsDigit(patient_id[i])
    THEN PyInt(digits_value(patient_id, 0))
    ELSE PyFalse

validate_patient_id(patient_id) ==
    LET parsed == int_of_str(patient_id)
    IN IF parsed.exc = "ValueError" THEN PyFalse ELSE PyInt(parsed.n)

-----------------------------------------------------------------------------
(* Patient *)

\* the parameters Patient.__init__ accepts (besides self)
Patient_params == {"first_name", "last_name", "mrn", "age", "tests"}

\* the optional argument tests of Patient.__init__: not given (None), or a list
NoTests == <<>>
GivenTests(lst) == <<lst>>

\* Patient.__init__: tests is None gives the empty list
Patient(first_name, last_name, mrn, age, tests) ==
    [py |-> "Patient", first_name |-> first_name, last_name |-> last_name,
     mrn |-> mrn, age |-> age,
     tests |-> IF tests = NoTests THEN <<>> ELSE tests[1]]

\* a Python bool returned by a method
PyBool(b) == [py |-> "bool", b |-> b]

\* mutant: the tests are compared as well
Patient_eq_with_tests(self, other) ==
    IF other.py # "Patient"
    THEN PyBool(FALSE)
    ELSE IF /\ self.first_name = other.first_name
            /\ self.last_name = other.last_name
            /\ self.mrn = other.mrn
            /\ self.age = other.age
            /\ self.tests = other.tests
         THEN PyBool(TRUE)
         ELSE PyBool(FALSE)

\* Patient.__eq__
Patient_eq(self, other) ==
    IF other.py # "Patient"
    THEN PyBool(FALSE)
    ELSE IF /\ self.first_name = other.first_name
            /\ self.last_name = other.last_name
            /\ self.mrn = other.mrn
            /\ self.age = other.age
         THEN PyBool(TRUE)
         ELSE PyBool(FALSE)

\* mutant: a new instance is made of the name, the mrn and the longer list
add_test_result_new_instance(self, test_name, test_value) ==
    Patient(self.first_name, self.last_name, self.mrn, 0,
            GivenTests(Append(self.tests, <<test_name, test_value>>)))

\* mutant: the list is replaced by the new result
add_test_result_only(self, test_name, test_value) ==
    [self EXCEPT !.tests = <<<<test_name, test_value>>>>]

\* mutant: the new result is put at the front of the list
add_test_result_front(self, test_name, test_value) ==
    [self EXCEPT !.tests = <<<<test_name, test_value>>>> \o self.tests]

\* Patient.add_test_result: the instance after the call
add_test_result(self, test_name, test_value) ==
    [self EXCEPT !.tests = Append(self.tests, <<test_name, test_value>>)]

\* str.split(sep) for a one-character separator: every occurrence of sep
\* ends a token, empty tokens included
RECURSIVE split(_, _)
split(s, sep) ==
    IF \A i \in 1..Len(s) : s[i] # sep
    THEN <<s>>
    ELSE LET i == CHOOSE j \in 1..Len(s) :
                      s[j] = sep /\ \A k \in 1..(j - 1) : s[k] # sep
         IN <<SubSeq(s, 1, i - 1)>> \o split(SubSeq(s, i + 1, Len(s)), sep)

-----------------------------------------------------------------------------
(* The persistence collaborator: the Patients collection, one document   *)
(* per medical record number.                                              *)

\* mutant: the instance is inserted as a new document
save_insert(db, self) == db \cup {self}

\* Patient.save: the collection after the instance is written; the
\* document of the same mrn is replaced whole
save(db, self) == {d \in db : d.mrn # self.mrn} \cup {self}

\* Patient.get_patient_from_db: the document of that mrn, or None
get_patient_from_db(db, mrn) ==
    IF \E d \in db : d.mrn = mrn
    THEN CHOOSE d \in db : d.mrn = mrn
    ELSE PyNone

-----------------------------------------------------------------------------
(* PatientRecordStore *)

\* mutant: what get_patient_from_db returned is passed on as it is
get_patient_none(db, mrn) == get_patient_from_db(db, mrn)

\* mutant: an unknown mrn gives a new, empty patient instead of False
get_patient_or_new(db, mrn) ==
    LET found == get_patient_from_db(db, mrn)
    IN IF found = PyNone THEN Patient(<<>>, <<>>, mrn, 0, NoTests) ELSE found

get_patient(db, mrn) ==
    LET found == get_patient_from_db(db, mrn)
    IN IF found = PyNone THEN PyFalse ELSE found

\* add_patient_to_db: the exception it ends with ("" when it returns) and
\* the collection afterwards.  The unpacking of the split needs exactly two
\* tokens; the constructor call passes the keyword blood_type.
add_patient_to_db(db, in_data) ==
    LET tokens == split(in_data["name"].s, " ")
    IN IF Len(tokens) # 2
       THEN [exc |-> "ValueError", db |-> db]
       ELSE IF "blood_type" \notin Patient_params
       THEN [exc |-> "TypeError", db |-> db]
       ELSE [exc |-> "",
             db |-> save(db, Patient(tokens[1], tokens[2], in_data["id"].n, 0, NoTests))]

\* the message bodies of the routes, in the shape of the validator's messages
Msg(kind) == [kind |-> kind, key |-> "", type |-> "", value |-> <<>>]

\* a response: the status code, the message and (for /get_results) the list
Resp(status, msg, tests) == [status |-> status, msg |-> msg, tests |-> tests]

\* an exception no handler catches leaves the route: the server answers 500
Uncaught(exc) == Resp(500, Msg(exc), <<>>)

NoResp == Resp(0, Msg(""), <<>>)

\* a request: the route, the JSON body and the <patient_id> of the URL
Req(route, in_data, patient_id) ==
    [route |-> route, in_data |-> in_data, patient_id |-> patient_id]

NoReq == Req("", EmptyDict, <<>>)

\* mutant: the blood type is not validated before the patient is added
new_patient_route_unchecked(db, in_data) ==
    LET check_results == validate_post_input(in_data, new_patient_keys, new_patient_types)
    IN IF check_results # RetTrue
       THEN [resp |-> Resp(400, check_results, <<>>), db |-> db]
       ELSE LET added == add_patient_to_db(db, in_data)
            IN IF added.exc # ""
               THEN [resp |-> Uncaught(added.exc), db |-> added.db]
               ELSE [resp |-> Resp(200, Msg("Patient added"), <<>>),
                     db |-> added.db]

\* post_new_patient: the response and the collection afterwards
new_patient_route(db, in_data) ==
    LET check_results == validate_post_input(in_data, new_patient_keys, new_patient_types)
    IN IF check_results # RetTrue
       THEN [resp |-> Resp(400, check_results, <<>>), db |-> db]
       ELSE LET check_blood_type == validate_blood_type(in_data["blood_type"].s)
            IN IF check_blood_type # RetTrue
               THEN [resp |-> Resp(400, check_blood_type, <<>>), db |-> db]
               ELSE LET added == add_patient_to_db(db, in_data)
                    IN IF added.exc # ""
                       THEN [resp |-> Uncaught(added.exc), db |-> added.db]
                       ELSE [resp |-> Resp(200, Msg("Patient added"), <<>>),
                             db |-> added.db]

\* the list lst from its last element to its first
Reversed(lst) == [i \in 1..Len(lst) |-> lst[Len(lst) + 1 - i]]

\* mutant: the results are listed latest first
get_get_results_latest_first(db, patient_id) ==
    LET mrn == validate_patient_id(patient_id)
    IN IF mrn = PyFalse
       THEN Resp(400, Msg("Given patient id is not an integer"), <<>>)
       ELSE LET found == get_patient(db, mrn.n)
            IN IF found = PyFalse
               THEN Resp(400, Msg("Patient id not found in database"), <<>>)
               ELSE Resp(200, Msg("tests"), Reversed(found.tests))

\* mutant: the checks are made on truth values, which takes 0 for False
get_get_results_falsy(db, patient_id) ==
    LET mrn == validate_patient_id(patient_id)
    IN IF mrn = PyFalse \/ mrn = PyInt(0)
       THEN Resp(400, Msg("Given patient id is not an integer"), <<>>)
       ELSE LET found == get_patient(db, mrn.n)
            IN IF found = PyFalse
               THEN Resp(400, Msg("Patient id not found in database"), <<>>)
               ELSE Resp(200, Msg("tests"), found.tests)

\* get_get_results: the response (the collection is only read)
get_get_results(db, patient_id) ==
    LET mrn == validate_patient_id(patient_id)
    IN IF mrn = PyFalse
       THEN Resp(400, Msg("Given patient id is not an integer"), <<>>)
       ELSE LET found == get_patient(db, mrn.n)
            IN IF found = PyFalse
               THEN Resp(400, Msg("Patient id not found in database"), <<>>)
               ELSE Resp(200, Msg("tests"), found.tests)

-----------------------------------------------------------------------------
(* The requests the model sends *)

Handlers == {"h1", "h2"}

\* medical record numbers that occur in requests; 3 is never in the initial collection
Mrns == {1, 2, 3}

glucose == <<"g">>
cholesterol == <<"c">>

\* the collection when the server starts: each of patients 1 and 2 absent,
\* present without tests, or present with one earlier test
InitDocs(mrn, first_name, last_name, age) ==
    {{}} \cup
    {{Patient(first_name, last_name, mrn, age, GivenTests(ts))} :
        ts \in {<<>>, << <<cholesterol, 180>> >>}}

InitStores ==
    {d1 \cup d2 : d1 \in InitDocs(1, <<"A">>, <<"B">>, 0),
                  d2 \in InitDocs(2, <<"C">>, <<"D">>, 7)}

NewPatientBody(name, id, blood_type) ==
    [k \in {"name", "id", "blood_type"} |->
        IF k = "name" THEN name ELSE IF k = "id" THEN id ELSE blood_type]

AddTestBody(id, test_name, test_result) ==
    [k \in {"id", "test_name", "test_result"} |->
        IF k = "id" THEN id ELSE IF k = "test_name" THEN test_name ELSE test_result]

\* the dictionary d without the key k
Without(d, k) == [j \in (DOMAIN d) \ {k} |-> d[j]]

NewPatientInputs ==
    {NewPatientBody(JStr(<<"A", " ", "B">>), JInt(m), JStr(<<"A", "+">>)) : m \in {1, 3}}
    \cup {NewPatientBody(JStr(n), JInt(3), JStr(<<"A", "+">>)) :
            n \in {<<"A", "B">>, <<"A", " ", "B", " ", "C">>}}
    \cup {NewPatientBody(JStr(<<"A", " ", "B">>), JFloat(3), JStr(<<"A", "+">>)),
          NewPatientBody(JStr(<<"A", " ", "B">>), JInt(3), JStr(<<"a", "+">>)),
          Without(NewPatientBody(JInt(5), JInt(3), JStr(<<"A", "+">>)), "blood_type"),
          Without(NewPatientBody(JStr(<<"A", " ", "B">>), JInt(3), JStr(<<"A", "+">>)), "name")}

AddTestInputs ==
    {AddTestBody(JInt(m), JStr(t[1]), JInt(t[2])) :
        m \in Mrns, t \in {<<glucose, 90>>, <<cholesterol, 180>>}}
    \cup {AddTestBody(JStr(<<"1">>), JStr(glucose), JInt(90)),
          AddTestBody(JInt(1), JStr(glucose), JFloat(90)),
          Without(AddTestBody(JInt(1), JStr(glucose), JInt(90)), "id")}

PatientIdInputs ==
    {<<"1">>, <<"2">>, <<"3">>, <<"a", "b", "c">>, <<"4", ".", "2">>}

\* a call of a validator function on its own: the function and its arguments
Call(fn, in_data, expected_keys, expected_types, blood_type) ==
    [fn |-> fn, in_data |-> in_data, expected_keys |-> expected_keys,
     expected_types |-> expected_types, blood_type |-> blood_type]

NoCall == Call("", EmptyDict, <<>>, <<>>, <<>>)

-----------------------------------------------------------------------------
(* The server *)

Init ==
    /\ store \in InitStores
    /\ store0 = store
    /\ log = [m \in Mrns |-> <<>>]
    /\ pc = [h \in Handlers |-> "ready"]
    /\ req = [h \in Handlers |-> NoReq]
    /\ patient = [h \in Handlers |-> PyNone]
    /\ resp = [h \in Handlers |-> NoResp]
    /\ nreq = 0
    /\ vcall = NoCall
    /\ vret = RetTrue

\* the handler h takes a request and answers it
Answer(h, request, response) ==
    /\ req' = [req EXCEPT ![h] = request]
    /\ resp' = [resp EXCEPT ![h] = response]
    /\ pc' = [pc EXCEPT ![h] = "ready"]
    /\ patient' = [patient EXCEPT ![h] = PyNone]

\* POST /new_patient, handled in one step: validation is local and
\* add_patient_to_db makes at most one access to the collection
post_new_patient(h) ==
    /\ pc[h] = "ready"
    /\ nreq < MaxReqs
    /\ \E in_data \in NewPatientInputs :
          LET r == new_patient_route(store, in_data)
          IN /\ store' = r.db
             /\ Answer(h, Req("new_patient", in_data, <<>>), r.resp)
    /\ nreq' = nreq + 1
    /\ UNCHANGED <<store0, log, vcall, vret>>

\* POST /add_test up to the return of get_patient: the validation, then the
\* read of the collection
post_add_test(h) ==
    /\ pc[h] = "ready"
    /\ nreq < MaxReqs
    /\ \E in_data \in AddTestInputs :
          LET check_input == validate_post_input(in_data, add_test_keys, add_test_types)
              request == Req("add_test", in_data, <<>>)
          IN IF check_input # RetTrue
             THEN Answer(h, request, Resp(400, check_input, <<>>))
             ELSE LET found == get_patient(store, in_data["id"].n)
                  IN IF found = PyFalse
                     THEN Answer(h, request, Resp(400, Msg("Patient not found"), <<>>))
                     ELSE /\ req' = [req EXCEPT ![h] = request]
                          /\ patient' = [patient EXCEPT ![h] = found]
                          /\ pc' = [pc EXCEPT ![h] = "save"]
                          /\ resp' = [resp EXCEPT ![h] = NoResp]
    /\ nreq' = nreq + 1
    /\ UNCHANGED <<store, store0, log, vcall, vret>>

\* mutant: the record is read again when it is saved, so that the append
\* applies to what the collection holds at that moment
add_test_to_patient_reread(h) ==
    /\ pc[h] = "save"
    /\ LET in_data == req[h].in_data
           updated == add_test_result(get_patient(store, in_data["id"].n),
                                      in_data["test_name"].s, in_data["test_result"].n)
       IN /\ store' = save(store, updated)
          /\ log' = [log EXCEPT ![in_data["id"].n] =
                        Append(@, <<in_data["test_name"].s, in_data["test_result"].n>>)]
    /\ Answer(h, req[h], Resp(200, Msg("Test added"), <<>>))
    /\ UNCHANGED <<store0, nreq, vcall, vret>>

\* the rest of add_test_to_patient: the test is appended to the local
\* instance, the instance is saved, and the route answers
add_test_to_patient(h) ==
    /\ pc[h] = "save"
    /\ LET in_data == req[h].in_data
           updated == add_test_result(patient[h], in_data["test_name"].s,
                                      in_data["test_result"].n)
       IN /\ store' = save(store, updated)
          /\ log' = [log EXCEPT ![in_data["id"].n] =
                        Append(@, <<in_data["test_name"].s, in_data["test_result"].n>>)]
    /\ Answer(h, req[h], Resp(200, Msg("Test added"), <<>>))
    /\ UNCHANGED <<store0, nreq, vcall, vret>>

\* GET /get_results/<patient_id>, handled in one step: one read of the collection
get_results(h) ==
    /\ pc[h] = "ready"
    /\ nreq < MaxReqs
    /\ \E patient_id \in PatientIdInputs :
          Answer(h, Req("get_results", EmptyDict, patient_id),
                 get_get_results(store, patient_id))
    /\ nreq' = nreq + 1
    /\ UNCHANGED <<store, store0, log, vcall, vret>>

Step(h) ==
    \/ post_new_patient(h)
    \/ post_add_test(h)
    \/ add_test_to_patient(h)
    \/ get_results(h)

\* requests are handled concurrently: the steps of the handlers interleave
Next == \E h \in Handlers : Step(h)

Spec == Init /\ [][Next]_vars

\* requests are handled one after another: a handler moves only while no
\* other handler is between its read and its save
Alone(h) == \A g \in Handlers \ {h} : pc[g] = "ready"

NextSeq ==
    \E h \in Handlers :
        \/ Alone(h) /\ post_new_patient(h)
        \/ Alone(h) /\ post_add_test(h)
        \/ Alone(h) /\ add_test_to_patient(h)
        \/ Alone(h) /\ get_results(h)

SpecSeq == Init /\ [][NextSeq]_vars

-----------------------------------------------------------------------------
(* The validator functions on their own: each step is one call, with its  *)
(* arguments drawn from bounded sets, and records what the call returned.  *)

\* one value of each JSON type
JsonValues == {JStr(<<"x">>), JInt(1), JFloat(1), JBool(1), JNull}

\* every dictionary over a subset of the keys ks
Dicts(ks) == UNION {[sub -> JsonValues] : sub \in SUBSET ks}

SeqOf(list) == {list[i] : i \in 1..Len(list)}

\* every string of at most MaxBloodLen of these characters
BloodChars == {"A", "B", "O", "a", "b", "+", "-"}
BloodStrings == UNION {[1..n -> BloodChars] : n \in 0..MaxBloodLen}

InitValidator ==
    /\ store = {}
    /\ store0 = store
    /\ log = [m \in Mrns |-> <<>>]
    /\ pc = [h \in Handlers |-> "ready"]
    /\ req = [h \in Handlers |-> NoReq]
    /\ patient = [h \in Handlers |-> PyNone]
    /\ resp = [h \in Handlers |-> NoResp]
    /\ nreq = 0
    /\ vcall = NoCall
    /\ vret = RetTrue

\* validate_post_input as /new_patient calls it
call_validate_new_patient ==
    /\ vcall = NoCall
    /\ \E in_data \in Dicts(SeqOf(new_patient_keys) \cup {"extra"}) :
          /\ vcall' = Call("validate_post_input", in_data,
                           new_patient_keys, new_patient_types, <<>>)
          /\ vret' = validate_post_input(in_data, new_patient_keys, new_patient_types)
    /\ UNCHANGED <<store, store0, log, pc, req, patient, resp, nreq>>

\* validate_post_input as /add_test calls it
call_validate_add_test ==
    /\ vcall = NoCall
    /\ \E in_data \in Dicts(SeqOf(add_test_keys) \cup {"extra"}) :
          /\ vcall' = Call("validate_post_input", in_data,
                           add_test_keys, add_test_types, <<>>)
          /\ vret' = validate_post_input(in_data, add_test_keys, add_test_types)
    /\ UNCHANGED <<store, store0, log, pc, req, patient, resp, nreq>>

call_validate_blood_type ==
    /\ vcall = NoCall
    /\ \E blood_type \in BloodStrings :
          /\ vcall' = Call("validate_blood_type", EmptyDict, <<>>, <<>>, blood_type)
          /\ vret' = validate_blood_type(blood_type)
    /\ UNCHANGED <<store, store0, log, pc, req, patient, resp, nreq>>

\* every string of at most MaxIdLen of these characters
IdChars == {"0", "1", "2", "4", "a", "b", "c", ".", "-", "+", " ", "_"}
IdStrings == UNION {[1..n -> IdChars] : n \in 0..MaxIdLen}

\* a call of validate_patient_id on its own
IdCall(patient_id) == [fn |-> "validate_patient_id", patient_id |-> patient_id]

call_validate_patient_id ==
    /\ vcall = NoCall
    /\ \E patient_id \in IdStrings :
          /\ vcall' = IdCall(patient_id)
          /\ vret' = validate_patient_id(patient_id)
    /\ UNCHANGED <<store, store0, log, pc, req, patient, resp, nreq>>

\* Patient instances that differ in any of their attributes
PatientValues ==
    {Patient(f, l, m, a, GivenTests(ts)) :
        f \in {<<"A">>, <<"X">>}, l \in {<<"B">>, <<"Y">>}, m \in {1, 2}, a \in {0, 7},
        ts \in {<<>>, << <<glucose, 90>> >>}}

\* values that are not Patient instances; the last has a Patient's attributes
OtherValues ==
    {PyNone, PyFalse, PyInt(1),
     [py |-> "object", first_name |-> <<"A">>, last_name |-> <<"B">>,
      mrn |-> 1, age |-> 0, tests |-> <<>>]}

\* a comparison self == other on its own
EqCall(self, other) == [fn |-> "Patient.__eq__", self |-> self, other |-> other]

call_patient_eq ==
    /\ vcall = NoCall
    /\ \E self \in PatientValues : \E other \in PatientValues \cup OtherValues :
          /\ vcall' = EqCall(self, other)
          /\ vret' = Patient_eq(self, other)
    /\ UNCHANGED <<store, store0, log, pc, req, patient, resp, nreq>>

\* collections for the results route on its own: empty, or with a patient
\* whose mrn is 0
ResultsStores ==
    {{},
     {Patient(<<"A">>, <<"B">>, 0, 0, NoTests)},
     {Patient(<<"A">>, <<"B">>, 0, 0, GivenTests(<< <<glucose, 90>> >>)),
      Patient(<<"C">>, <<"D">>, 1, 7, NoTests)}}

\* a call of get_get_results on its own
ResultsCall(db, patient_id) ==
    [fn |-> "get_get_results", db |-> db, patient_id |-> patient_id]

call_get_get_results ==
    /\ vcall = NoCall
    /\ \E db \in ResultsStores : \E patient_id \in IdStrings :
          /\ vcall' = ResultsCall(db, patient_id)
          /\ vret' = get_get_results(db, patient_id)
    /\ UNCHANGED <<store, store0, log, pc, req, patient, resp, nreq>>

NextValidator ==
    \/ call_validate_new_patient
    \/ call_validate_add_test
    \/ call_validate_blood_type
    \/ call_validate_patient_id
    \/ call_patient_eq
    \/ call_get_get_results

SpecValidator == InitValidator /\ [][NextValidator]_vars

-----------------------------------------------------------------------------
(* Properties of the record store *)

Stored(db, mrn) == \E d \in db : d.mrn = mrn

\* the tests a patient had when the server started (none if registered later)
BaseTests(mrn) ==
    IF Stored(store0, mrn) THEN get_patient(store0, mrn).tests ELSE <<>>

\* the decimal numeral of a medical record number of the model
Numeral(mrn) == <<Digits[mrn + 1]>>

NotFoundResp == Resp(400, Msg("Patient not found"), <<>>)

ShapeOk(in_data, keys, types) == validate_post_input(in_data, keys, types) = RetTrue

\* C1: an add-test call for an identifier that is not stored answers
\* "Patient not found" and leaves the whole collection as it was.
C1_NotFoundNoMutation ==
    [][\A h \in Handlers :
          (/\ post_add_test(h)
           /\ ShapeOk(req'[h].in_data, add_test_keys, add_test_types)
           /\ ~Stored(store, req'[h].in_data["id"].n))
          => (/\ store' = store
              /\ resp'[h] = NotFoundResp
              /\ pc'[h] = "ready")]_vars

\* C1 witness: an add-test call was answered "Patient not found" while other
\* patients are stored, and the collection is what it was at the start
C1_Witness ==
    \E h \in Handlers :
        /\ req[h].route = "add_test"
        /\ resp[h] = NotFoundResp
        /\ store # {}
        /\ store = store0

\* C2: when the add-test calls run one after another, the list returned for
\* a stored patient is the tests stored before followed by every appended
\* pair in the order of the calls.
C2_AppendOrder ==
    \A m \in Mrns :
        Stored(store, m) =>
            get_get_results(store, Numeral(m)) =
                Resp(200, Msg("tests"), BaseTests(m) \o log[m])

\* C2 witness: glucose then cholesterol were appended to a patient who
\* already had a cholesterol result; the list holds all three, in that order
C2_Witness ==
    \E m \in Mrns :
        /\ BaseTests(m) = << <<cholesterol, 180>> >>
        /\ log[m] = << <<glucose, 90>>, <<cholesterol, 180>> >>
        /\ get_get_results(store, Numeral(m)).tests =
              << <<cholesterol, 180>>, <<glucose, 90>>, <<cholesterol, 180>> >>

\* C3 (as claimed): registering a two-token name under an identifier that is
\* not stored, with a valid blood type, makes the lookup of that identifier
\* return the new patient: the two tokens, the identifier, age 0, no tests.
C3_RoundTrip ==
    [][\A h \in Handlers :
          (/\ post_new_patient(h)
           /\ ShapeOk(req'[h].in_data, new_patient_keys, new_patient_types)
           /\ validate_blood_type(req'[h].in_data["blood_type"].s) = RetTrue
           /\ Len(split(req'[h].in_data["name"].s, " ")) = 2
           /\ ~Stored(store, req'[h].in_data["id"].n))
          => LET tokens == split(req'[h].in_data["name"].s, " ")
                 mrn == req'[h].in_data["id"].n
             IN get_patient(store', mrn) =
                    Patient(tokens[1], tokens[2], mrn, 0, NoTests)]_vars

\* C4: the save of an add-test call writes the whole record as the call
\* read it, plus its own pair, whatever the collection holds by then: the
\* last write wins.
C4_LastWriteWins ==
    [][\A h \in Handlers :
          add_test_to_patient(h) =>
              LET in_data == req[h].in_data
              IN get_patient(store', in_data["id"].n).tests =
                    Append(patient[h].tests,
                           <<in_data["test_name"].s, in_data["test_result"].n>>)]_vars

\* C4 witness: two add-test calls on the same stored patient both answered
\* 200, and the stored list grew by one result only
C4_LostUpdate ==
    \E m \in Mrns :
        /\ nreq = 2
        /\ \A h \in Handlers :
              /\ pc[h] = "ready"
              /\ req[h].route = "add_test"
              /\ resp[h].status = 200
              /\ req[h].in_data["id"].n = m
        /\ Len(log[m]) = 2
        /\ Len(get_patient(store, m).tests) = Len(BaseTests(m)) + 1

\* C5: no two documents of the collection have the same medical record number.
C5_UniqueMrn ==
    \A d1 \in store : \A d2 \in store : d1.mrn = d2.mrn => d1 = d2

\* C5 witness: a registration was attempted for an identifier that is stored,
\* and that patient's record has been rewritten by an append
C5_Witness ==
    \E h \in Handlers :
        /\ req[h].route = "new_patient"
        /\ pc[h] = "ready"
        /\ ShapeOk(req[h].in_data, new_patient_keys, new_patient_types)
        /\ Stored(store, req[h].in_data["id"].n)
        /\ log[req[h].in_data["id"].n] # <<>>

\* a request body or URL that is malformed for its route, given the collection
Malformed(request, db) ==
    \/ /\ request.route = "new_patient"
       /\ \/ ~ShapeOk(request.in_data, new_patient_keys, new_patient_types)
          \/ validate_blood_type(request.in_data["blood_type"].s) # RetTrue
          \/ Len(split(request.in_data["name"].s, " ")) # 2
    \/ /\ request.route = "add_test"
       /\ \/ ~ShapeOk(request.in_data, add_test_keys, add_test_types)
          \/ ~Stored(db, request.in_data["id"].n)
    \/ /\ request.route = "get_results"
       /\ \/ int_of_str(request.patient_id).exc # ""
          \/ ~Stored(db, int_of_str(request.patient_id).n)

\* C6 (as claimed): every request with a malformed input is answered with
\* an error message and status 400; none ends in an uncaught exception.
C6_TypedErrors ==
    [][\A h \in Handlers :
          (/\ post_new_patient(h) \/ post_add_test(h) \/ get_results(h)
           /\ Malformed(req'[h], store))
          => resp'[h].status = 400]_vars

-----------------------------------------------------------------------------
(* Properties of the validator *)

IsShapeCall == vcall.fn = "validate_post_input"

\* the i-th expected key is absent from the input of the call
Absent(i) == vcall.expected_keys[i] \notin DOMAIN vcall.in_data

\* the i-th expected key is present with a value of another type than expected
WrongType(i) ==
    /\ ~Absent(i)
    /\ vcall.in_data[vcall.expected_keys[i]].t # vcall.expected_types[i]

Expected == 1..Len(vcall.expected_keys)

\* C7 (as claimed): when the input misses an expected key, the call reports
\* the absence of a key that is missing, never anything else.
C7_ReportsMissingKey ==
    (IsShapeCall /\ \E i \in Expected : Absent(i))
        => (vret.kind = "KeyNotFound" /\ vret.key \notin DOMAIN vcall.in_data)

\* C7 (amended): when the input misses an expected key, the call reports the
\* absence of the first missing key, unless an expected key before it has a
\* value of the wrong type, which is then reported instead; a key reported
\* as not found is always an expected key absent from the input.
C7_FirstMissingKey ==
    IsShapeCall =>
        /\ \A i \in Expected :
              (Absent(i) /\ \A j \in 1..(i - 1) : ~Absent(j))
                  => IF \A j \in 1..(i - 1) : ~WrongType(j)
                     THEN vret = KeyNotFound(vcall.expected_keys[i])
                     ELSE vret.kind = "NotExpectedType"
        /\ vret.kind = "KeyNotFound"
              => \E i \in Expected : Absent(i) /\ vret.key = vcall.expected_keys[i]

\* C7 witness: the second and the third expected key are both missing, the
\* first is well typed, and the second is the one reported
C7_Witness ==
    /\ IsShapeCall
    /\ ~Absent(1) /\ ~WrongType(1) /\ Absent(2) /\ Absent(3)
    /\ vret = KeyNotFound(vcall.expected_keys[2])

\* C8: a failed call reports the first expected key, in order, that is
\* absent or of the wrong type: as not found if absent, as not of the
\* expected type otherwise, whatever is wrong with the keys after it.
C8_FirstInvalidKey ==
    (IsShapeCall /\ vret # RetTrue) =>
        \E i \in Expected :
            /\ Absent(i) \/ WrongType(i)
            /\ \A j \in 1..(i - 1) : ~Absent(j) /\ ~WrongType(j)
            /\ vret = IF Absent(i)
                      THEN KeyNotFound(vcall.expected_keys[i])
                      ELSE NotExpectedType(vcall.expected_keys[i], vcall.expected_types[i])

\* C8 witness: the first key has the wrong type, the second is missing and
\* the third has the wrong type; the first is the one reported
C8_Witness ==
    /\ IsShapeCall
    /\ WrongType(1) /\ Absent(2) /\ WrongType(3)
    /\ vret = NotExpectedType(vcall.expected_keys[1], vcall.expected_types[1])

\* the dictionary d restricted to the keys ks
Restrict(d, ks) == [k \in (DOMAIN d) \cap ks |-> d[k]]

\* C9: the call returns True exactly when every expected key is present
\* with a value whose type is the expected one (a float or a bool is not an
\* int), and the keys that are not expected do not change what it returns.
C9_ExactTypes ==
    IsShapeCall =>
        /\ vret = RetTrue <=>
              \A i \in Expected :
                  /\ vcall.expected_keys[i] \in DOMAIN vcall.in_data
                  /\ vcall.in_data[vcall.expected_keys[i]].t = vcall.expected_types[i]
        /\ vret = validate_post_input(
                      Restrict(vcall.in_data, SeqOf(vcall.expected_keys)),
                      vcall.expected_keys, vcall.expected_types)

\* C9 witness: a call with an unexpected key in its input returned True
C9_Witness ==
    /\ IsShapeCall
    /\ "extra" \in DOMAIN vcall.in_data
    /\ vret = RetTrue

\* the eight blood types
EightBloodTypes ==
    {<<"A", "+">>, <<"A", "-">>, <<"B", "+">>, <<"B", "-">>,
     <<"A", "B", "+">>, <<"A", "B", "-">>, <<"O", "+">>, <<"O", "-">>}

\* C10: validate_blood_type returns True exactly for the eight blood types,
\* in that spelling, and for every other string the message that names it.
C10_BloodTypes ==
    vcall.fn = "validate_blood_type" =>
        /\ vret = RetTrue <=> vcall.blood_type \in EightBloodTypes
        /\ vret # RetTrue => vret = BloodTypeNotValid(vcall.blood_type)

\* C10 witness: "a+" was refused, with the message naming it
C10_Witness ==
    /\ vcall.fn = "validate_blood_type"
    /\ vcall.blood_type = <<"a", "+">>
    /\ vret = BloodTypeNotValid(<<"a", "+">>)

-----------------------------------------------------------------------------
(* Properties of validate_patient_id *)

IsIdCall == vcall.fn = "validate_patient_id"

\* the value of a string of decimal digits, as the sum of its digits' weights
RECURSIVE Pow10(_)
Pow10(k) == IF k = 0 THEN 1 ELSE 10 * Pow10(k - 1)

RECURSIVE SumTo(_, _)
SumTo(ds, k) ==
    IF k = 0 THEN 0
    ELSE DigitValue(ds[k]) * Pow10(Len(ds) - k) + SumTo(ds, k - 1)

DecimalValue(ds) == SumTo(ds, Len(ds))

AllDigits(ds) == ds # <<>> /\ \A i \in 1..Len(ds) : ds[i] \in SeqOf(Digits)

\* a plain integer literal: decimal digits, after an optional sign
PlainLiteral(raw) ==
    \/ AllDigits(raw)
    \/ Len(raw) > 1 /\ raw[1] \in {"+", "-"} /\ AllDigits(Tail(raw))

PlainValue(raw) ==
    IF raw[1] = "-" THEN 0 - DecimalValue(Tail(raw))
    ELSE IF raw[1] = "+" THEN DecimalValue(Tail(raw))
    ELSE DecimalValue(raw)

\* C11 (as claimed): validate_patient_id returns the integer the string
\* denotes when the string is an integer literal, and False for every string
\* that is not.
C11_PlainLiteralsOnly ==
    IsIdCall =>
        IF PlainLiteral(vcall.patient_id)
        THEN vret = PyInt(PlainValue(vcall.patient_id))
        ELSE vret = PyFalse

\* the string without the underscores
NoUnderscores(raw) == SelectSeq(raw, LAMBDA c : c # "_")

\* digits, with single underscores allowed between two digits
GroupedDigits(raw) ==
    /\ AllDigits(NoUnderscores(raw))
    /\ raw[1] # "_" /\ raw[Len(raw)] # "_"
    /\ \A i \in 1..(Len(raw) - 1) : raw[i] = "_" => raw[i + 1] # "_"

\* an integer literal as int() reads it: blanks, an optional sign, grouped
\* digits, blanks
IntLiteral(raw) ==
    \E i \in 1..Len(raw) : \E j \in i..Len(raw) :
        /\ \A k \in 1..Len(raw) : (k < i \/ k > j) => raw[k] = " "
        /\ \/ GroupedDigits(SubSeq(raw, i, j))
           \/ i < j /\ raw[i] \in {"+", "-"} /\ GroupedDigits(SubSeq(raw, i + 1, j))

IntValue(raw) ==
    LET ds == SelectSeq(raw, LAMBDA c : c \in SeqOf(Digits))
    IN IF \E k \in 1..Len(raw) : raw[k] = "-"
       THEN 0 - DecimalValue(ds)
       ELSE DecimalValue(ds)

\* C11 (amended): validate_patient_id returns the integer the string denotes
\* when the string is a decimal integer literal, where a leading sign, blanks
\* around it and single underscores between digits are allowed, and returns
\* False for every other string.
C11_IntLiterals ==
    IsIdCall =>
        IF IntLiteral(vcall.patient_id)
        THEN vret = PyInt(IntValue(vcall.patient_id))
        ELSE vret = PyFalse

\* C11 witness: " 42" gave 42
C11_Witness ==
    /\ IsIdCall
    /\ vcall.patient_id = <<" ", "4", "2">>
    /\ vret = PyInt(42)

-----------------------------------------------------------------------------
(* Properties of Patient.__eq__ *)

IsEqCall == vcall.fn = "Patient.__eq__"

\* the attributes that identify a patient
Identity(p) == <<p.first_name, p.last_name, p.mrn, p.age>>

\* C12: two Patient values compare equal exactly when their first name, last
\* name, mrn and age are equal, whatever their tests; a Patient never equals
\* a value that is not a Patient.
C12_EqualityOnIdentity ==
    IsEqCall =>
        IF vcall.other \in PatientValues
        THEN vret = PyBool(Identity(vcall.self) = Identity(vcall.other))
        ELSE vret = PyBool(FALSE)

\* C12 witness: two patients with different tests compared equal
C12_Witness ==
    /\ IsEqCall
    /\ vcall.other \in PatientValues
    /\ vcall.self.tests # vcall.other.tests
    /\ vret = PyBool(TRUE)

-----------------------------------------------------------------------------
(* Further properties of the record store *)

\* C13: get_patient returns False exactly when no patient of that mrn is
\* stored, and otherwise the stored patient of that mrn.
C13_FindPatient ==
    \A m \in Mrns :
        IF Stored(store, m)
        THEN /\ get_patient(store, m) # PyFalse
             /\ get_patient(store, m) \in store
             /\ get_patient(store, m).mrn = m
        ELSE get_patient(store, m) = PyFalse

\* C13 witness: one request was answered "Patient not found" for an mrn
\* that is not stored, another was answered with the tests of a stored patient
C13_Witness ==
    \E h \in Handlers : \E g \in Handlers :
        /\ req[h].route = "add_test"
        /\ resp[h] = NotFoundResp
        /\ ~Stored(store, req[h].in_data["id"].n)
        /\ req[g].route = "get_results"
        /\ resp[g].status = 200

IsPrefix(a, b) == Len(a) <= Len(b) /\ SubSeq(b, 1, Len(a)) = a

\* C14: with the requests handled one after another, a stored patient stays
\* stored and the tests stored for it before a step are a prefix of the
\* tests stored for it after the step (hence of those in every later state).
C14_AppendOnly ==
    [][\A m \in Mrns :
          Stored(store, m) =>
              /\ Stored(store', m)
              /\ IsPrefix(get_patient(store, m).tests, get_patient(store', m).tests)]_vars

\* C14 witness: after two appends and a registration attempt, a patient
\* stored from the start holds its earlier test followed by the two new ones
C14_Witness ==
    \E m \in Mrns : \E h \in Handlers :
        /\ Stored(store0, m)
        /\ BaseTests(m) # <<>>
        /\ Len(log[m]) = 2
        /\ req[h].route = "new_patient"
        /\ get_patient(store, m).tests = BaseTests(m) \o log[m]

\* C15: a request that fails validation is answered with the validation
\* error and status 400 and leaves the collection untouched: a registration
\* whose shape or blood type is refused, an add-test whose shape is refused
\* (which does not even read the collection); a registration changes the
\* collection only after both of its checks have passed.
C15_NoStoreOnInvalid ==
    [][\A h \in Handlers :
          /\ (nreq' = nreq + 1 /\ req'[h].route = "new_patient" /\ post_new_patient(h))
             => LET in_data == req'[h].in_data
                    shape == validate_post_input(in_data, new_patient_keys,
                                                 new_patient_types)
                IN /\ shape # RetTrue
                      => store' = store /\ resp'[h] = Resp(400, shape, <<>>)
                   /\ (shape = RetTrue /\ in_data["blood_type"].s \notin EightBloodTypes)
                      => /\ store' = store
                         /\ resp'[h] = Resp(400,
                                BloodTypeNotValid(in_data["blood_type"].s), <<>>)
                   /\ store' # store
                      => shape = RetTrue /\ in_data["blood_type"].s \in EightBloodTypes
          /\ (nreq' = nreq + 1 /\ req'[h].route = "add_test" /\ post_add_test(h))
             => LET shape == validate_post_input(req'[h].in_data, add_test_keys,
                                                 add_test_types)
                IN shape # RetTrue
                      => /\ store' = store
                         /\ pc'[h] = "ready"
                         /\ patient'[h] = PyNone
                         /\ resp'[h] = Resp(400, shape, <<>>)]_vars

\* C15 witness: a registration with the blood type "a+" and an add-test
\* with a real number as result were both answered 400, and the collection,
\* which is not empty, is what it was at the start
C15_Witness ==
    \E h \in Handlers : \E g \in Handlers :
        /\ req[h].route = "new_patient"
        /\ resp[h] = Resp(400, BloodTypeNotValid(<<"a", "+">>), <<>>)
        /\ req[g].route = "add_test"
        /\ resp[g] = Resp(400, NotExpectedType("test_result", "int"), <<>>)
        /\ store # {}
        /\ store = store0

\* the tests of the document of mrn m in the collection db
StoredTests(db, m) == (CHOOSE d \in db : d.mrn = m).tests

\* C16: the lookups only read: the steps that call get_patient for a lookup
\* (the results route, and the add-test route up to its read) leave the
\* collection as it is, and the results route returns for a stored mrn
\* exactly the tests stored for it at that moment.
C16_PureReads ==
    [][\A h \in Handlers :
          /\ (nreq' = nreq + 1 /\ req'[h].route = "add_test" /\ post_add_test(h))
             => store' = store
          /\ (nreq' = nreq + 1 /\ req'[h].route = "get_results" /\ get_results(h))
             => /\ store' = store
                /\ \A m \in Mrns :
                      (req'[h].patient_id = Numeral(m) /\ Stored(store, m))
                          => resp'[h] = Resp(200, Msg("tests"), StoredTests(store, m))]_vars

\* C16 witness: the results route returned the two tests stored for a
\* patient, one of them added since the start
C16_Witness ==
    \E h \in Handlers : \E m \in Mrns :
        /\ req[h].route = "get_results"
        /\ req[h].patient_id = Numeral(m)
        /\ resp[h].status = 200
        /\ Len(resp[h].tests) = 2
        /\ resp[h].tests = StoredTests(store, m)
        /\ store # store0

\* C17: the save of an add-test call changes nothing but the tests of the
\* patient it is for: that patient's first name, last name, mrn and age, and
\* the whole document of every other patient, are the same before and after.
C17_AppendFrame ==
    [][\A h \in Handlers :
          add_test_to_patient(h) =>
              LET m == req[h].in_data["id"].n
              IN /\ \A d \in store : d.mrn # m => d \in store'
                 /\ \A d \in store' : d.mrn # m => d \in store
                 /\ Stored(store, m) /\ Stored(store', m)
                 /\ Identity(get_patient(store', m)) = Identity(get_patient(store, m))]_vars

\* C17 witness: an append to one patient was saved while an append to the
\* other patient is between its read and its save, and the other patient's
\* document is still the one that was read
C17_Witness ==
    \E h \in Handlers : \E g \in Handlers :
        /\ pc[h] = "ready" /\ req[h].route = "add_test" /\ resp[h].status = 200
        /\ pc[g] = "save"
        /\ req[g].in_data["id"].n # req[h].in_data["id"].n
        /\ log[req[h].in_data["id"].n] # <<>>
        /\ get_patient(store, req[g].in_data["id"].n) = patient[g]
        /\ get_patient(store, req[g].in_data["id"].n).age # 0

-----------------------------------------------------------------------------
(* Properties of the results route *)

IsResultsCall == vcall.fn = "get_get_results"

\* C18: the results route answers "not an integer" only for a string that
\* is no integer literal, and "not found" only for an mrn that is not
\* stored: a string that denotes 0 is looked up as mrn 0, and a stored
\* patient's tests are returned.
C18_NoConfusion ==
    IsResultsCall =>
        IF ~IntLiteral(vcall.patient_id)
        THEN vret = Resp(400, Msg("Given patient id is not an integer"), <<>>)
        ELSE IF ~Stored(vcall.db, IntValue(vcall.patient_id))
        THEN vret = Resp(400, Msg("Patient id not found in database"), <<>>)
        ELSE vret = Resp(200, Msg("tests"),
                         StoredTests(vcall.db, IntValue(vcall.patient_id)))

\* C18 witness: "0" was looked up and the stored patient 0 was found
C18_Witness ==
    /\ IsResultsCall
    /\ vcall.patient_id = <<"0">>
    /\ Stored(vcall.db, 0)
    /\ vret = Resp(200, Msg("tests"), << <<glucose, 90>> >>)

====
